---- MODULE Spec2Model ----
(***************************************************************************)
(* A model of the Vasp calculator adapter of src/vasp.py: the stored       *)
(* structure, the parameter dictionaries and their snapshot, the result    *)
(* mapping, the sort/resort permutation, the files of the working          *)
(* directory and the external program.                                     *)
(*                                                                         *)
(* Each public method is one action.  A method is written as an operator   *)
(* from the adapter-and-directory record to the record after the call; an  *)
(* exception is the field exc of that record, and Then skips the rest of   *)
(* a method once an exception is raised.                                   *)
(*                                                                         *)
(* Indices are 1-based here and 0-based in the source: sort[n] = m here    *)
(* is sort[n-1] = m-1 there.                                               *)
(***************************************************************************)
EXTENDS Integers, Sequences, FiniteSets, TLC

\* The largest number of sites of a structure the model draws.
MaxAtoms == 4

\* check_state(self, atoms, tol=1e-15): coordinates are integers in units of
\* the tolerance, so two coordinates differ by more than tol iff they differ
\* by more than Tol.
Tol == 1

Species == {"A", "B"}
Coords == {0, 1, 2}

None == "None"

\* A structure: the species of its sites in caller order, the coordinate x
\* of its first site (every other coordinate is fixed), the rank of its cell
\* and whether all three axes are periodic.
SymLists == UNION {{s \in [1..n -> Species] : s[1] = "A"} : n \in 1..MaxAtoms}

Atoms(s, c) == [sym |-> s, x |-> c, rank |-> "3", pbc |-> TRUE]

ZeroCellAtoms == [sym |-> <<"A">>, x |-> 0, rank |-> "0", pbc |-> TRUE]

NonPeriodicAtoms == [sym |-> <<"A">>, x |-> 0, rank |-> "3", pbc |-> FALSE]

\* None where a structure is expected, and an object that is no Atoms object.
NoAtoms == [sym |-> <<>>, x |-> 0, rank |-> "None", pbc |-> FALSE]

NotAtoms == [sym |-> <<>>, x |-> 0, rank |-> "not an Atoms object", pbc |-> FALSE]

\* The structures of the permutation runs: every list of species, one
\* geometry.
SortStructures == {Atoms(s, 0) : s \in SymLists}

\* The structures of the life-cycle runs: two lists of species, every
\* coordinate.
LifeStructures == {Atoms(s, c) : s \in {<<"A">>, <<"A", "B">>}, c \in Coords}

\* What check_atoms refuses.
BadAtoms == {NoAtoms, NotAtoms, ZeroCellAtoms, NonPeriodicAtoms}

Structures == SortStructures \cup LifeStructures \cup {ZeroCellAtoms, NonPeriodicAtoms}

IsAtoms(a) == a \in Structures

VARIABLES
    atoms,         \* self._atoms: NoAtoms or the stored copy of a structure
    results,       \* self.results
    xml_calc,      \* self.__xml_calc: <<>> (None) or <<the loaded vasprun.xml data>>
    input_params,  \* self.input_params
    int_params,    \* self.int_params
    parameters,    \* Calculator.parameters
    param_state,   \* self.param_state
    sort,          \* self.sort, <<>> before it is first built
    resort,        \* self.resort, <<>> before it is first built
    spinpol,       \* self.spinpol
    command,       \* self.command
    txt,           \* self._txt
    files,         \* the files of the working directory
    exc,           \* the exception the last call raised, NoExc if none
    trace,         \* what the last calculate call did, in order
    old,           \* keys of results populated before the last calculate call
    shared,        \* which dictionaries hold the very list object input_params holds
    taken,         \* the parameter values when param_state was last stored
    caller,        \* the structure object last assigned, and whether
                   \* self._atoms is that very object
    place,         \* self.directory, self.prefix, and the files of the
                   \* directory the adapter is not in
    handle,        \* the output destination of the last invocation, and what
                   \* was opened and closed for it, in order
    ret            \* the last call when it was a query, and what it returned

vars == <<atoms, results, xml_calc, input_params, int_params, parameters,
          param_state, sort, resort, spinpol, command, txt, files, exc,
          trace, old, shared, taken, caller, place, handle, ret>>

\* The adapter, the directory and the record of the call as one value.
Self ==
    [atoms |-> atoms, results |-> results, xml_calc |-> xml_calc,
     input_params |-> input_params, int_params |-> int_params,
     parameters |-> parameters, param_state |-> param_state,
     sort |-> sort, resort |-> resort, spinpol |-> spinpol,
     command |-> command, txt |-> txt, files |-> files,
     exc |-> exc, trace |-> trace, old |-> old,
     shared |-> shared, taken |-> taken, caller |-> caller, place |-> place,
     handle |-> handle]

Is(s) ==
    /\ atoms = s.atoms
    /\ results = s.results
    /\ xml_calc = s.xml_calc
    /\ input_params = s.input_params
    /\ int_params = s.int_params
    /\ parameters = s.parameters
    /\ param_state = s.param_state
    /\ sort = s.sort
    /\ resort = s.resort
    /\ spinpol = s.spinpol
    /\ command = s.command
    /\ txt = s.txt
    /\ files = s.files
    /\ exc = s.exc
    /\ trace = s.trace
    /\ old = s.old
    /\ shared = s.shared
    /\ taken = s.taken
    /\ caller = s.caller
    /\ place = s.place
    /\ handle = s.handle

Becomes(s) ==
    /\ atoms' = s.atoms
    /\ results' = s.results
    /\ xml_calc' = s.xml_calc
    /\ input_params' = s.input_params
    /\ int_params' = s.int_params
    /\ parameters' = s.parameters
    /\ param_state' = s.param_state
    /\ sort' = s.sort
    /\ resort' = s.resort
    /\ spinpol' = s.spinpol
    /\ command' = s.command
    /\ txt' = s.txt
    /\ files' = s.files
    /\ exc' = s.exc
    /\ trace' = s.trace
    /\ old' = s.old
    /\ shared' = s.shared
    /\ taken' = s.taken
    /\ caller' = s.caller
    /\ place' = s.place
    /\ handle' = s.handle

----------------------------------------------------------------------------
\* Dictionaries and exceptions

EmptyDict == [k \in {} |-> None]

Update(d, e) ==
    [k \in DOMAIN d \cup DOMAIN e |-> IF k \in DOMAIN e THEN e[k] ELSE d[k]]

Without(d, keys) == [k \in DOMAIN d \ keys |-> d[k]]

NoExc == [type |-> "none", info |-> <<>>]

Raise(s, type, info) == [s EXCEPT !.exc = [type |-> type, info |-> info]]

Ok(s) == s.exc = NoExc

Then(s, F(_)) == IF Ok(s) THEN F(s) ELSE s

\* What a calculate call did: its steps on the directory and the program, in
\* order; the exit event carries the exit status.
Log(s, event) == [s EXCEPT !.trace = Append(@, [ev |-> event, code |-> 0])]

LogExit(s, code) == [s EXCEPT !.trace = Append(@, [ev |-> "exit", code |-> code])]

\* A fresh call: nothing raised yet.
\* No invocation block was entered.
NoHandle == [out |-> "none", did |-> <<>>]

Call(s) == [s EXCEPT !.exc = NoExc, !.trace = <<>>, !.old = {}, !.handle = NoHandle]

----------------------------------------------------------------------------
\* Parameters

KptsValues == {None, "k1"}

\* The values of kpts that are list objects, named by their content: a list
\* can be changed in place, and every dictionary that holds the object then
\* holds the new content.
ListValues == {"L1", "L2"}

IsList(v) == v \in ListValues

\* No dictionary holds the list object input_params holds.
NotShared == [snapshot |-> FALSE, parameters |-> FALSE]

\* The keyword arguments the model passes: kpts (input_params) to set, and
\* nothing or ispin and lorbit (int_params) to the constructor.
MagOn == [ispin |-> "2", lorbit |-> "11"]

ParamKwargs == {[kpts |-> k] : k \in KptsValues}

ListKwargs == {[kpts |-> k] : k \in ListValues \cup {None}}

InputParamKeys == {"kpts"}

IntParamKeys == {"ispin", "lorbit", "ibrion", "nsw"}

\* GenerateVaspInput.__init__: every parameter starts as None.
InitInputParams == [kpts |-> None]

InitIntParams == [ispin |-> None, lorbit |-> None, ibrion |-> None, nsw |-> None]

\* _store_param_state: param_state holds a copy of each parameter dictionary.
\* dict.copy() copies the dictionary and not its values: a list is then held
\* by both.
store_param_state(s) ==
    [s EXCEPT !.param_state = [input_params |-> s.input_params,
                               int_params |-> s.int_params],
              !.taken = [input_params |-> s.input_params,
                         int_params |-> s.int_params],
              !.shared.snapshot = IsList(s.input_params.kpts)]

\* check_state.compare_dict: the key sets are equal and no value differs.
compare_dict(d1, d2) ==
    /\ (DOMAIN d1 \ DOMAIN d2) \cup (DOMAIN d2 \ DOMAIN d1) = {}
    /\ \A key \in DOMAIN d1 : ~(d1[key] # d2[key])

----------------------------------------------------------------------------
\* Change detection

all_changes ==
    {"positions", "numbers", "cell", "pbc", "initial_charges", "initial_magmoms"}

Abs(i) == IF i < 0 THEN -i ELSE i

\* Calculator.check_state(self, atoms, tol): compare_atoms of the stored
\* structure and the given one.  Everything has changed when nothing is
\* stored; otherwise a property has changed when its arrays differ in shape
\* or some entry differs by more than tol.
compare_atoms(a1, a2) ==
    IF a1 = NoAtoms THEN all_changes
    ELSE {c \in {"positions"} :
              Len(a1.sym) # Len(a2.sym) \/ Abs(a1.x - a2.x) > Tol}
         \cup {c \in {"numbers"} : a1.sym # a2.sym}
         \cup {c \in {"cell"} : a1.rank # a2.rank}
         \cup {c \in {"pbc"} : a1.pbc # a2.pbc}

\* A change detector that compares the parameters only.
check_state_ignores_atoms(s, a) ==
    {p \in DOMAIN s.param_state : ~compare_dict(s[p], s.param_state[p])}

\* Vasp.check_state: the structural changes, then every parameter dictionary
\* that differs from its snapshot.
check_state(s, a) ==
    compare_atoms(s.atoms, a)
    \cup {p \in DOMAIN s.param_state : ~compare_dict(s[p], s.param_state[p])}

----------------------------------------------------------------------------
\* Results and the stored structure

results_clear(s) == [s EXCEPT !.results = EmptyDict, !.old = {}]

results_update(s, e) ==
    [s EXCEPT !.results = Update(@, e), !.old = @ \ DOMAIN e]

clear_results(s) == [results_clear(s) EXCEPT !.xml_calc = <<>>]

\* An atoms setter that stores the object it is given.
atoms_setter_no_copy(s, a) ==
    IF a = NoAtoms
    THEN clear_results([s EXCEPT !.atoms = NoAtoms,
                                 !.caller = [atoms |-> NoAtoms, same |-> FALSE]])
    ELSE [(IF check_state(s, a) # {} THEN clear_results(s) ELSE s)
              EXCEPT !.atoms = a, !.caller = [atoms |-> a, same |-> TRUE]]

\* The _xml_calc property, through which get_fermi_level, get_eigenvalues and
\* the other getters of vasprun.xml data go: RuntimeError when nothing is
\* loaded, the loaded data otherwise.
xml_calc_getter(s) ==
    IF s.xml_calc = <<>> THEN [raises |-> "RuntimeError", value |-> <<>>]
    ELSE [raises |-> "none", value |-> s.xml_calc]

\* The atoms setter: self._atoms = atoms.copy().
atoms_setter(s, a) ==
    IF a = NoAtoms
    THEN clear_results([s EXCEPT !.atoms = NoAtoms,
                                 !.caller = [atoms |-> NoAtoms, same |-> FALSE]])
    ELSE [(IF check_state(s, a) # {} THEN clear_results(s) ELSE s)
              EXCEPT !.atoms = a, !.caller = [atoms |-> a, same |-> FALSE]]

\* The caller moves the sites of the structure object it assigned: the
\* stored structure moves with it when it is that object.
mutate_atoms(s, c) ==
    [s EXCEPT !.caller.atoms.x = c,
              !.atoms = IF s.caller.same THEN [@ EXCEPT !.x = c] ELSE @]

reset(s) == clear_results(atoms_setter(s, NoAtoms))

\* The kpts setter: input_params holds the given object.
kpts_setter(s, k) == [s EXCEPT !.input_params.kpts = k, !.shared = NotShared]

\* A change in place of the list the kpts getter returns (calc.kpts[0] = n):
\* every dictionary that holds the list holds the new content.
mutate_kpts(s, k) ==
    [s EXCEPT !.input_params.kpts = k,
              !.param_state.input_params.kpts = IF s.shared.snapshot THEN k ELSE @,
              !.parameters = IF s.shared.parameters THEN [@ EXCEPT !.kpts = k] ELSE @]

\* Calculator.set(self, **kwargs): records the keys whose value is new in
\* self.parameters and returns them.
changed_parameters(s, kw) ==
    {k \in DOMAIN kw : k \notin DOMAIN s.parameters \/ s.parameters[k] # kw[k]}

\* GenerateVaspInput.set(self, **kwargs): each key goes to the dictionary
\* that holds it.
generate_set(s, kw) ==
    [s EXCEPT !.input_params =
                  Update(@, [k \in DOMAIN kw \cap InputParamKeys |-> kw[k]]),
              !.int_params =
                  Update(@, [k \in DOMAIN kw \cap IntParamKeys |-> kw[k]]),
              !.shared = IF "kpts" \in DOMAIN kw
                         THEN [snapshot |-> FALSE, parameters |-> IsList(kw.kpts)]
                         ELSE @]

\* Vasp.set.
\* self.directory = ...: the files the adapter sees are those of the
\* directory it is in.
directory_setter(s, d) ==
    IF d = s.place.directory THEN s
    ELSE [s EXCEPT !.place.directory = d, !.place.elsewhere = s.files,
                   !.files = s.place.elsewhere]

\* self.label = ...: a label without '/' is the prefix, in directory '.'.
label_setter(s, l) == [directory_setter(s, ".") EXCEPT !.place.prefix = l]

\* A set that takes every keyword for an input parameter.
set_clears_always(s, kw) ==
    LET l == IF "label" \in DOMAIN kw THEN label_setter(s, kw.label) ELSE s
        d == IF "directory" \in DOMAIN kw THEN directory_setter(l, kw.directory)
             ELSE l
        s1 == IF "txt" \in DOMAIN kw THEN [d EXCEPT !.txt = kw.txt] ELSE d
        s3 == IF "command" \in DOMAIN kw
              THEN [s1 EXCEPT !.command = kw.command] ELSE s1
    IN  IF DOMAIN kw # {} THEN results_clear(s3) ELSE s3

set(s, kw) ==
    LET l == IF "label" \in DOMAIN kw THEN label_setter(s, kw.label) ELSE s
        d == IF "directory" \in DOMAIN kw THEN directory_setter(l, kw.directory)
             ELSE l
        s1 == IF "txt" \in DOMAIN kw THEN [d EXCEPT !.txt = kw.txt] ELSE d
        s2 == IF "atoms" \in DOMAIN kw THEN atoms_setter(s1, kw.atoms) ELSE s1
        s3 == IF "command" \in DOMAIN kw
              THEN [s2 EXCEPT !.command = kw.command] ELSE s2
        kwargs == Without(kw, {"label", "directory", "txt", "atoms", "command"})
        changed == changed_parameters(s3, kwargs)
        s4 == [s3 EXCEPT !.parameters = Update(@, kwargs)]
        s5 == IF changed # {} THEN clear_results(s4) ELSE s4
    IN  IF DOMAIN kwargs # {}
        THEN results_clear(generate_set(s5, kwargs))
        ELSE s5

----------------------------------------------------------------------------
\* The sort/resort permutation

\* atoms[index]: the entries of seq at the positions index names, in order.
Permute(seq, index) == [n \in 1..Len(index) |-> seq[index[n]]]

InRange(seq, index) == \A n \in 1..Len(index) : index[n] \in 1..Len(seq)

RECURSIVE symbols_seen(_, _)
\* The distinct species of the first n sites, in order of first appearance.
symbols_seen(sym, n) ==
    IF n = 0 THEN <<>>
    ELSE LET seen == symbols_seen(sym, n - 1)
         IN  IF \E j \in 1..Len(seen) : seen[j] = sym[n]
             THEN seen ELSE Append(seen, sym[n])

RECURSIVE sites_of(_, _, _)
\* The indices among the first n sites that hold the given species, ascending.
sites_of(sym, symbol, n) ==
    IF n = 0 THEN <<>>
    ELSE IF sym[n] = symbol
         THEN Append(sites_of(sym, symbol, n - 1), n)
         ELSE sites_of(sym, symbol, n - 1)

RECURSIVE sort_of(_, _, _)
\* The sorting list: for each of the first k species, its sites.
sort_of(sym, symbols, k) ==
    IF k = 0 THEN <<>>
    ELSE sort_of(sym, symbols, k - 1) \o sites_of(sym, symbols[k], Len(sym))

build_sort(sym) == sort_of(sym, symbols_seen(sym, Len(sym)), Len(symbols_seen(sym, Len(sym))))

\* resort[sort[n]] = n for every n.
build_resort(srt) ==
    [m \in 1..Len(srt) |-> CHOOSE n \in 1..Len(srt) : srt[n] = m]

\* GenerateVaspInput.initialize(atoms): builds sort and resort from the
\* structure and sets spinpol (no site carries an initial magnetic moment in
\* this model, so spinpol is ISPIN = 2).
initialize(s, a) ==
    [s EXCEPT !.sort = build_sort(a.sym),
              !.resort = build_resort(build_sort(a.sym)),
              !.spinpol = (s.int_params.ispin = "2")]

----------------------------------------------------------------------------
\* The lines of OUTCAR the readers look for.  A line is its kind and the
\* numbers on it: the threshold of an "EDIFF  " line, the two energy changes
\* of a "total energy-change" line ("change"; "MIXING" when the line holds
\* that word as well).

Line(kind, a, b) == [kind |-> kind, a |-> a, b |-> b]

\* The log of a run that went through: threshold 1, both energy changes 0.
CompleteLog ==
    <<Line("EDIFF", 1, 0), Line("change", 0, 0), Line("electron", 0, 0),
      Line("NBANDS", 0, 0)>>

\* [abs(a), abs(b)] < [ediff, ediff]: lists compare in lexicographic order.
list_less(x, y) == x[1] < y[1] \/ (x[1] = y[1] /\ x[2] < y[2])

RECURSIVE electronic(_, _)
\* The loop of read_convergence over the first n lines: the threshold last
\* seen, the outcome for the last energy-change line, and the error raised
\* when such a line comes before any threshold.
electronic(lines, n) ==
    IF n = 0 THEN [ediff |-> <<>>, converged |-> None, raises |-> "none"]
    ELSE LET seen == electronic(lines, n - 1)
             line == lines[n]
         IN  IF seen.raises # "none" THEN seen
             ELSE IF line.kind = "EDIFF" THEN [seen EXCEPT !.ediff = <<line.a>>]
             ELSE IF line.kind # "change" THEN seen
             ELSE IF seen.ediff = <<>>
             THEN [seen EXCEPT !.raises = "UnboundLocalError"]
             ELSE [seen EXCEPT !.converged =
                       IF list_less(<<Abs(line.a), Abs(line.b)>>,
                                    <<seen.ediff[1], seen.ediff[1]>>)
                       THEN "True" ELSE "False"]

\* read_relaxed: some line holds 'reached required accuracy'.
read_relaxed(lines) == \E n \in 1..Len(lines) : lines[n].kind = "accuracy"

\* ibrion in [1, 2, 3] and nsw not in [0].
relaxation_requested(ibrion, nsw) == ibrion \in {"1", "2", "3"} /\ nsw \notin {"0"}

\* read_convergence on the lines of a log: what it raises and returns.
convergence(lines, ibrion, nsw) ==
    LET e == electronic(lines, Len(lines))
    IN  IF e.raises # "none" THEN [raises |-> e.raises, value |-> None]
        ELSE IF relaxation_requested(ibrion, nsw)
        THEN [raises |-> "none",
              value |-> IF read_relaxed(lines) THEN "True" ELSE "False"]
        ELSE [raises |-> "none", value |-> e.converged]

\* The positions of the lines of a kind.
LinesOf(lines, kind) == {n \in 1..Len(lines) : lines[n].kind = kind}

\* read_nbands: the number on the first NBANDS line, None without one.
read_nbands(lines) ==
    IF LinesOf(lines, "NBANDS") = {}
    THEN [raises |-> "none", value |-> <<>>]
    ELSE [raises |-> "none",
          value |-> <<lines[CHOOSE n \in LinesOf(lines, "NBANDS") :
                                 \A k \in LinesOf(lines, "NBANDS") : n <= k].a>>]

\* _read_magnetic_moment: the number on the last 'number of electron  '
\* line; the name is unbound without one.
read_magnetic_moment(lines) ==
    IF LinesOf(lines, "electron") = {}
    THEN [raises |-> "UnboundLocalError", value |-> <<>>]
    ELSE [raises |-> "none",
          value |-> <<lines[CHOOSE n \in LinesOf(lines, "electron") :
                                 \A k \in LinesOf(lines, "electron") : k <= n].a>>]

----------------------------------------------------------------------------
\* The working directory.  A file is <<>> when absent and <<content>> when
\* present.  A site keeps, in every file, the index it has in the caller's
\* list when the input files are written (ids): it stands for the position
\* by which the site is recognised, so the value the program reports for a
\* site is that index.

EmptyDir ==
    [sortfile |-> <<>>, poscar |-> <<>>, incar |-> <<>>, xml |-> <<>>,
     outcar |-> <<>>, contcar |-> <<>>]

Identity(n) == [i \in 1..n |-> i]

\* A directory a run of the program without this adapter left behind: the
\* output files, and no permutation file.
ForeignDir(sym) ==
    [sortfile |-> <<>>,
     poscar |-> <<[sym |-> sym, ids |-> Identity(Len(sym))]>>,
     incar |-> <<[ispin |-> None, lorbit |-> None]>>,
     xml |-> <<[ok |-> TRUE, forces |-> Identity(Len(sym)), spin |-> FALSE]>>,
     outcar |-> <<[lines |-> CompleteLog, mag |-> <<>>]>>,
     contcar |-> <<[sym |-> sym, ids |-> Identity(Len(sym))]>>]

\* The lines of ase-sort.dat: sort[n] and resort[n] on line n.
sort_lines(srt, rst) == [n \in 1..Len(srt) |-> <<srt[n], rst[n]>>]

\* A write_input that does not rebuild the permutation it persists.
write_input_keeps_sort(s, a) ==
    LET t == [s EXCEPT !.spinpol = (s.int_params.ispin = "2")]
    IN  Log([t EXCEPT
                !.files.poscar = <<[sym |-> Permute(a.sym, build_sort(a.sym)),
                                    ids |-> build_sort(a.sym)]>>,
                !.files.incar = <<[ispin |-> t.int_params.ispin,
                                   lorbit |-> t.int_params.lorbit]>>,
                !.files.sortfile = <<sort_lines(t.sort, t.resort)>>],
            "write_input")

\* write_input: initialize, then GenerateVaspInput.write_input writes the
\* sorted structure, the parameters and the permutation file.
write_input(s, a) ==
    LET t == initialize(s, a)
    IN  Log([t EXCEPT
                !.files.poscar = <<[sym |-> Permute(a.sym, t.sort),
                                    ids |-> t.sort]>>,
                !.files.incar = <<[ispin |-> t.int_params.ispin,
                                   lorbit |-> t.int_params.lorbit]>>,
                !.files.sortfile = <<sort_lines(t.sort, t.resort)>>],
            "write_input")

----------------------------------------------------------------------------
\* The external program

ExitCodes == {0, 1, 137}

\* What a run leaves behind: every output file; every output file with a log
\* that has a "total energy-change" line and no EDIFF line before it; an
\* incomplete vasprun.xml.
ProgramOutputs == {"complete", "noediff", "brokenxml"}

\* A run can leave the magnetization block out of the log ("nomag").
\* A run can also write no vasprun.xml at all ("noxml"): the file of an
\* earlier run, if any, stays.
\* The runs of the program: an exit status and what is left behind.  A run
\* that fails leaves an incomplete vasprun.xml, or every output file.
Runs ==
    {[code |-> 0, out |-> o] : o \in ProgramOutputs}
    \cup {[code |-> c, out |-> "brokenxml"] : c \in ExitCodes \ {0}}
    \cup {[code |-> 137, out |-> "complete"]}

vasp(f, out) ==
    LET p == f.poscar[1]
        xml == [ok |-> TRUE, forces |-> p.ids, spin |-> f.incar[1].ispin = "2"]
        log == [lines |-> IF out = "noediff"
                          THEN <<Line("change", 0, 0)>> ELSE CompleteLog,
                mag |-> IF f.incar[1].lorbit = "11" /\ out # "nomag"
                        THEN p.ids ELSE <<>>]
    IN  IF out = "noxml"
        THEN [f EXCEPT !.outcar = <<log>>, !.contcar = <<p>>]
        ELSE IF out = "brokenxml"
        THEN [f EXCEPT !.xml = <<[ok |-> FALSE, forces |-> <<>>, spin |-> FALSE]>>,
                       !.outcar = <<log>>, !.contcar = <<p>>]
        ELSE [f EXCEPT !.xml = <<xml>>, !.outcar = <<log>>, !.contcar = <<p>>]

----------------------------------------------------------------------------
\* Reading the results

XmlKeys == {"energy", "forces"}

LogKeys == {"magmom", "magmoms", "dipole", "nbands"}

AllKeys == XmlKeys \cup LogKeys \cup {"stress"}

Zeros(n) == [i \in 1..n |-> 0]

\* _read_xml: an incomplete file is a ReadError; a missing file is the
\* error of ase.io.read, which _read_xml does not catch.
read_xml(s) ==
    IF s.files.xml = <<>> THEN Raise(s, "FileNotFoundError", <<"vasprun.xml">>)
    ELSE IF ~s.files.xml[1].ok THEN Raise(s, "ReadError", <<"vasprun.xml">>)
    ELSE [s EXCEPT !.xml_calc = s.files.xml]

\* A reader that permutes the forces through sort instead of resort.
resort_forces_by_sort(s) ==
    IF s.resort = <<>> THEN Raise(s, "AttributeError", <<"resort">>)
    ELSE IF ~InRange(s.xml_calc[1].forces, s.sort)
    THEN Raise(s, "IndexError", <<"forces">>)
    ELSE [s EXCEPT !.xml_calc[1].forces = Permute(@, s.sort)]

\* xml_results['forces'] = xml_results['forces'][self.resort]
resort_forces(s) ==
    IF s.resort = <<>> THEN Raise(s, "AttributeError", <<"resort">>)
    ELSE IF ~InRange(s.xml_calc[1].forces, s.resort)
    THEN Raise(s, "IndexError", <<"forces">>)
    ELSE [s EXCEPT !.xml_calc[1].forces = Permute(@, s.resort)]

\* self.converged = self.read_convergence(lines=outcar): ediff is bound by
\* the EDIFF line only.
read_convergence(s) ==
    IF convergence(s.files.outcar[1].lines, s.int_params.ibrion,
                   s.int_params.nsw).raises # "none"
    THEN Raise(s, "UnboundLocalError", <<"ediff">>)
    ELSE s

\* _read_magnetic_moments: the last magnetization block, one line per site
\* of the stored structure, then [self.resort]; zeros when there is no block.
read_magnetic_moments(s) ==
    LET block == s.files.outcar[1].mag
        n == Len(s.atoms.sym)
        moments == IF block = <<>> THEN Zeros(n) ELSE SubSeq(block, 1, n)
    IN  IF block # <<>> /\ n > Len(block)
        THEN Raise(s, "IndexError", <<"magnetization">>)
        ELSE IF ~InRange(moments, s.resort)
        THEN Raise(s, "IndexError", <<"magmoms">>)
        ELSE results_update(s, [k \in {"magmoms"} |-> Permute(moments, s.resort)])

\* read_mag: in a spin-polarised run the total moment is read, and the
\* per-site moments are read when LORBIT >= 10 and are zero, with a warning,
\* otherwise; without spin polarisation they are zero.
read_mag(s) ==
    IF s.atoms = NoAtoms THEN Raise(s, "TypeError", <<"len">>)
    ELSE IF ~s.spinpol
    THEN results_update(s, [k \in {"magmoms"} |-> Zeros(Len(s.atoms.sym))])
    ELSE IF read_magnetic_moment(s.files.outcar[1].lines).raises # "none"
    THEN Raise(s, "UnboundLocalError", <<"magnetic_moment">>)
    ELSE IF s.int_params.lorbit = "11"
    THEN read_magnetic_moments(s)
    ELSE results_update(Log(s, "warn"),
                        [k \in {"magmoms"} |-> Zeros(Len(s.atoms.sym))])

read_log_scalars(s) ==
    results_update(s, [k \in LogKeys \ {"magmoms"} |-> k])

set_stress(s) ==
    IF "stress" \in DOMAIN s.results THEN s
    ELSE results_update(s, [k \in {"stress"} |-> None])

\* _set_old_keywords: spinpol becomes what vasprun.xml says.
set_old_keywords(s) == [s EXCEPT !.spinpol = s.xml_calc[1].spin]

update_xml_results(s) ==
    results_update(s, [k \in XmlKeys |->
                          IF k = "forces" THEN s.xml_calc[1].forces ELSE k])

\* read_results.
read_results(s) ==
    IF s.files.outcar = <<>>
    THEN Raise(Log(s, "read"), "FileNotFoundError", <<"OUTCAR">>)
    ELSE LET s1 == read_xml(Log(s, "read"))
             s2 == Then(s1, resort_forces)
             s3 == Then(s2, update_xml_results)
             s4 == Then(s3, read_convergence)
             s5 == Then(s4, read_mag)
             s6 == Then(s5, read_log_scalars)
             s7 == Then(s6, set_stress)
             s8 == Then(s7, set_old_keywords)
         IN  Then(s8, store_param_state)

\* The integers in column c of the lines, in line order.
column(lines, c) == [n \in 1..Len(lines) |-> lines[n][c]]

\* A read_sort that rebuilds the permutation whenever CONTCAR is there.
read_sort_rebuilds(s) ==
    IF s.files.contcar # <<>>
    THEN initialize(s, [sym |-> s.files.contcar[1].sym, x |-> 0,
                        rank |-> "3", pbc |-> TRUE])
    ELSE IF s.files.sortfile # <<>>
    THEN [s EXCEPT !.sort = column(s.files.sortfile[1], 1),
                   !.resort = column(s.files.sortfile[1], 2)]
    ELSE Raise(s, "FileNotFoundError", <<"CONTCAR">>)

\* A read_sort that takes both lists from the first column of the file.
read_sort_one_column(s) ==
    IF s.files.sortfile # <<>>
    THEN [s EXCEPT !.sort = column(s.files.sortfile[1], 1),
                   !.resort = column(s.files.sortfile[1], 1)]
    ELSE IF s.files.contcar = <<>>
    THEN Raise(s, "FileNotFoundError", <<"CONTCAR">>)
    ELSE initialize(s, [sym |-> s.files.contcar[1].sym, x |-> 0,
                        rank |-> "3", pbc |-> TRUE])

\* read_sort: the two columns of the permutation file when it exists, else
\* the permutation of the final-structure file.
read_sort(s) ==
    IF s.files.sortfile # <<>>
    THEN [s EXCEPT !.sort = column(s.files.sortfile[1], 1),
                   !.resort = column(s.files.sortfile[1], 2)]
    ELSE IF s.files.contcar = <<>>
    THEN Raise(s, "FileNotFoundError", <<"CONTCAR">>)
    ELSE initialize(s, [sym |-> s.files.contcar[1].sym, x |-> 0,
                        rank |-> "3", pbc |-> TRUE])

\* read_atoms: read(filename)[self.resort], the sites it returns.
read_atoms(s) ==
    Permute(s.files.contcar[1].ids, s.resort)

read_atoms_raises(s) ==
    IF s.files.contcar = <<>> THEN "FileNotFoundError"
    ELSE IF s.resort = <<>> THEN "AttributeError"
    ELSE IF ~InRange(s.files.contcar[1].ids, s.resort) THEN "IndexError"
    ELSE "none"

\* read_incar: the parameters of the INCAR file are set (those the model
\* keeps: ispin and lorbit).
read_incar(s) ==
    IF s.files.incar = <<>> THEN Raise(s, "FileNotFoundError", <<"INCAR">>)
    ELSE [s EXCEPT !.int_params.ispin = s.files.incar[1].ispin,
                   !.int_params.lorbit = s.files.incar[1].lorbit]

\* The first of the files read needs that the directory lacks, "" if none.
missing_output(f) ==
    IF f.outcar = <<>> THEN "OUTCAR"
    ELSE IF f.contcar = <<>> THEN "CONTCAR"
    ELSE IF f.xml = <<>> THEN "vasprun.xml"
    ELSE ""

\* read: the output files must exist; then the permutation, the structure,
\* the parameters and the results are read.
read(s) ==
    IF missing_output(s.files) # ""
    THEN Raise(s, "ReadError", <<missing_output(s.files)>>)
    ELSE LET s1 == read_sort(s)
             s2 == Then(s1, LAMBDA t :
                       IF read_atoms_raises(t) # "none"
                       THEN Raise(t, read_atoms_raises(t), <<"read_atoms">>)
                       ELSE atoms_setter(t, Atoms(Permute(t.files.contcar[1].sym,
                                                          t.resort), 0)))
             s3 == Then(s2, read_incar)
         IN  Then(s3, read_results)

----------------------------------------------------------------------------
\* calculate

name == "vasp"

directory == place.directory

env_commands == <<"ASE_VASP_COMMAND", "VASP_COMMAND", "VASP_SCRIPT">>

sys_executable == "python"

\* A command is a sequence of words; <<>> is None.  The environment maps the
\* names that are set to their values.
Commands == {<<>>, <<"vasp_std">>}

Environs == {EmptyDict, [k \in {"VASP_COMMAND"} |-> <<"vasp_gam">>]}

TxtValues == {"vasp.out", "<int>"}

command_found(cmd, environ) ==
    cmd # <<>> \/ \E i \in 1..Len(env_commands) : env_commands[i] \in DOMAIN environ

\* self.prefix, which the label 'vasp' gives.
prefix == place.prefix

\* str.replace('PREFIX', self.prefix), word by word.
replace_prefix(words) ==
    [i \in 1..Len(words) |-> IF words[i] = "PREFIX" THEN prefix ELSE words[i]]

\* A make_command that lets the last environment variable that is set win.
make_command_last_set(cmd, environ) ==
    IF cmd # <<>> THEN cmd
    ELSE LET i == CHOOSE i \in 1..Len(env_commands) :
                      /\ env_commands[i] \in DOMAIN environ
                      /\ \A j \in (i + 1)..Len(env_commands) :
                             env_commands[j] \notin DOMAIN environ
         IN  IF env_commands[i] = "VASP_SCRIPT"
             THEN <<sys_executable>> \o replace_prefix(environ[env_commands[i]])
             ELSE replace_prefix(environ[env_commands[i]])

\* make_command: the given command when it is not empty, else the value of
\* the first environment variable that is set, with PREFIX replaced;
\* VASP_SCRIPT is run by the Python executable.
make_command(cmd, environ) ==
    IF cmd # <<>> THEN cmd
    ELSE LET i == CHOOSE i \in 1..Len(env_commands) :
                      /\ env_commands[i] \in DOMAIN environ
                      /\ \A j \in 1..(i - 1) : env_commands[j] \notin DOMAIN environ
         IN  IF env_commands[i] = "VASP_SCRIPT"
             THEN <<sys_executable>> \o replace_prefix(environ[env_commands[i]])
             ELSE replace_prefix(environ[env_commands[i]])

\* The environments make_command is asked about: each variable is unset or
\* holds one of two values that name it, one of them with PREFIX in it.
EnvNames == {env_commands[i] : i \in 1..Len(env_commands)}

EnvValues(v) == {<<v, "exe">>, <<"mpirun", "PREFIX", v>>}

CommandEnvirons ==
    UNION {{e \in [D -> UNION {EnvValues(v) : v \in D}] :
                \A v \in D : e[v] \in EnvValues(v)} : D \in SUBSET EnvNames}

\* check_atoms: check_atoms_type, check_cell, check_pbc, in this order.
check_atoms(s, a) ==
    IF ~IsAtoms(a) THEN Raise(s, "CalculatorSetupError", <<>>)
    ELSE IF a.rank # "3" THEN Raise(s, "CalculatorSetupError", <<>>)
    ELSE IF ~a.pbc THEN Raise(s, "CalculatorSetupError", <<>>)
    ELSE s

\* isinstance(txt, str): the strings among the values of txt.
is_str(v) == v \in {"-", "vasp.out"}

\* hasattr(txt, 'write'): the writable stream of the caller.
has_write(v) == v = "<stream>"

\* _txt_outstream up to the try block: the destination txt stands for, or
\* "RuntimeError".
outstream(v) ==
    IF v = None THEN "DEVNULL"
    ELSE IF is_str(v) THEN (IF v = "-" THEN "stdout" ELSE "file")
    ELSE IF has_write(v) THEN "stream"
    ELSE "RuntimeError"

\* open_and_close: the adapter opens the file itself.
open_and_close(v) == v # None /\ is_str(v) /\ v # "-"

Did(s, what) == [s EXCEPT !.handle.did = Append(@, what)]

\* subprocess.call: the program runs to its end and its exit status is
\* returned, or the call itself raises and no program runs.
subprocess_call(s, code, out) ==
    IF out = "oserror" THEN Raise(s, "OSError", <<>>)
    ELSE LogExit([Log(s, "launch") EXCEPT !.files = vasp(@, out)], code)

\* A _run that starts the program a second time.
run_twice(s, code, out) ==
    IF outstream(s.txt) = "RuntimeError" THEN Raise(s, "RuntimeError", <<"txt">>)
    ELSE LET entered == [s EXCEPT !.handle.out = outstream(s.txt)]
             opened == IF open_and_close(s.txt) THEN Did(entered, "open") ELSE entered
             once == subprocess_call(opened, code, out)
             ran == Then(once, LAMBDA r : subprocess_call(r, code, out))
         IN  IF open_and_close(s.txt) THEN Did(ran, "close") ELSE ran

\* A _txt_outstream that closes the file only when the block ends without
\* an exception, and closes the stream of the caller as well.
run_closes_wrongly(s, code, out) ==
    IF outstream(s.txt) = "RuntimeError" THEN Raise(s, "RuntimeError", <<"txt">>)
    ELSE LET entered == [s EXCEPT !.handle.out = outstream(s.txt)]
             opened == IF open_and_close(s.txt) THEN Did(entered, "open") ELSE entered
             ran == subprocess_call(opened, code, out)
         IN  IF has_write(s.txt) THEN Did(ran, "close")
             ELSE IF open_and_close(s.txt) /\ Ok(ran) THEN Did(ran, "close")
             ELSE ran

\* with self._txt_outstream() as out: errorcode = self._run(...): the output
\* destination is resolved, a file is opened for a file name, the program
\* runs, and the file the adapter opened is closed, whatever the block did.
run(s, code, out) ==
    IF outstream(s.txt) = "RuntimeError" THEN Raise(s, "RuntimeError", <<"txt">>)
    ELSE LET entered == [s EXCEPT !.handle.out = outstream(s.txt)]
             opened == IF open_and_close(s.txt) THEN Did(entered, "open") ELSE entered
             ran == subprocess_call(opened, code, out)
         IN  IF open_and_close(s.txt) THEN Did(ran, "close") ELSE ran

errorcode(s) == s.trace[Len(s.trace)].code

\* A calculate that ignores the exit status.
ignore_errorcode(s) == s

\* if errorcode: raise calculator.CalculationFailed(...)
raise_if_failed(s) ==
    IF errorcode(s) # 0
    THEN Raise(s, "CalculationFailed", <<name, directory, errorcode(s)>>)
    ELSE s

\* update_atoms: ibrion and nsw stay None in this model, so the positions
\* are not read back and the structure is only stored.
update_atoms(s, a) == atoms_setter(s, a)

\* A calculate that writes the input files before it resolves the command.
calculate_writes_first(s, a, environ, code, out) ==
    LET s0 == [Call(s) EXCEPT !.old = DOMAIN s.results]
        s1 == check_atoms(s0, a)
        s2 == Then(s1, clear_results)
        s3 == Then(s2, LAMBDA t : IF a # NoAtoms THEN atoms_setter(t, a) ELSE t)
        s4 == Then(s3, LAMBDA t : write_input(t, t.atoms))
        s5 == Then(s4, LAMBDA t : IF command_found(t.command, environ) THEN t
                                  ELSE Raise(t, "CalculatorSetupError", <<>>))
        s6 == Then(s5, LAMBDA t : run(t, code, out))
        s7 == Then(s6, raise_if_failed)
        s8 == Then(s7, LAMBDA t : update_atoms(t, a))
    IN  Then(s8, read_results)

calculate(s, a, environ, code, out) ==
    LET s0 == [Call(s) EXCEPT !.old = DOMAIN s.results]
        s1 == check_atoms(s0, a)
        s2 == Then(s1, clear_results)
        s3 == Then(s2, LAMBDA t : IF a # NoAtoms THEN atoms_setter(t, a) ELSE t)
        s4 == Then(s3, LAMBDA t : IF command_found(t.command, environ) THEN t
                                  ELSE Raise(t, "CalculatorSetupError", <<>>))
        s5 == Then(s4, LAMBDA t : write_input(t, t.atoms))
        s6 == Then(s5, LAMBDA t : run(t, code, out))
        s7 == Then(s6, raise_if_failed)
        s8 == Then(s7, LAMBDA t : update_atoms(t, a))
    IN  Then(s8, read_results)

----------------------------------------------------------------------------
\* The state machine

NoRet == [op |-> "none", arg |-> NoAtoms, changes |-> {}, sites |-> <<>>]

\* A check_state that stores the parameter state it compared.
check_state_stores(s, a) == store_param_state(s)

\* check_state assigns nothing: the adapter after the call is the adapter
\* before it.
after_check_state(s, a) == s

\* __init__ with no keyword argument that is a parameter: the parameter
\* dictionaries are created, their state is stored, nothing is loaded.
blank(cmd, dir) ==
    [atoms |-> NoAtoms, results |-> EmptyDict, xml_calc |-> <<>>,
     input_params |-> InitInputParams, int_params |-> InitIntParams,
     parameters |-> EmptyDict,
     param_state |-> [input_params |-> InitInputParams,
                      int_params |-> InitIntParams],
     sort |-> <<>>, resort |-> <<>>, spinpol |-> FALSE,
     command |-> cmd, txt |-> "vasp.out", files |-> dir,
     exc |-> NoExc, trace |-> <<>>, old |-> {},
     shared |-> NotShared,
     taken |-> [input_params |-> InitInputParams, int_params |-> InitIntParams],
     caller |-> [atoms |-> NoAtoms, same |-> FALSE],
     place |-> [directory |-> ".", prefix |-> "vasp", elsewhere |-> EmptyDir],
     handle |-> NoHandle]

\* __init__: Calculator.__init__ passes the keyword arguments to set, after
\* the parameter state was stored.
construct(cmd, dir, kw) == set(blank(cmd, dir), kw)

\* asdict: the parameters of param_state that are not None, in one
\* dictionary.
inputs(ps) ==
    LET all == [k \in InputParamKeys \cup IntParamKeys |->
                   IF k \in InputParamKeys THEN ps.input_params[k]
                   ELSE ps.int_params[k]]
    IN  [k \in {k \in DOMAIN all : all[k] # None} |-> all[k]]

\* asdict: param_state is stored anew; the dictionary holds the inputs, a
\* copy of the results and, when there is a structure, the structure.
asdict(s) ==
    LET t == store_param_state(s)
    IN  [after |-> t,
         dct |-> [inputs |-> inputs(t.param_state), results |-> t.results,
                  atoms |-> IF t.atoms = NoAtoms THEN <<>> ELSE <<t.atoms>>]]

\* A fromdict that takes the results before the structure.
fromdict_results_first(s, dct) ==
    LET s1 == store_param_state(set(s, dct.inputs))
        s2 == results_update(s1, dct.results)
    IN  IF dct.atoms # <<>> THEN atoms_setter(s2, dct.atoms[1]) ELSE s2

\* fromdict: the inputs are set and stored, the structure is assigned, and
\* the results are added to those the adapter has.
fromdict(s, dct) ==
    LET s1 == store_param_state(set(s, dct.inputs))
        s2 == IF dct.atoms # <<>> THEN atoms_setter(s1, dct.atoms[1]) ELSE s1
    IN  results_update(s2, dct.results)

IsConstructed(cmds, dirs, kws) ==
    \E cmd \in cmds, dir \in dirs, kw \in kws :
        /\ Is(construct(cmd, dir, kw))
        /\ ret = NoRet

Init == IsConstructed({<<>>}, {EmptyDir}, {EmptyDict})

InitSort ==
    IsConstructed({<<"vasp_std">>},
                  {EmptyDir} \cup {ForeignDir(sym) : sym \in SymLists}, {MagOn})

Calculate(args, environs, runs) ==
    \E a \in args, environ \in environs, r \in runs :
        /\ \E after \in {calculate(Self, a, environ, r.code, r.out)} : Becomes(after)
        /\ ret' = NoRet

SetAtoms(args) ==
    \E a \in args :
        /\ \E after \in {atoms_setter(Call(Self), a)} : Becomes(after)
        /\ ret' = NoRet

MutateAtoms ==
    \E c \in Coords :
        /\ caller.atoms # NoAtoms
        /\ c # caller.atoms.x
        /\ \E after \in {mutate_atoms(Call(Self), c)} : Becomes(after)
        /\ ret' = [NoRet EXCEPT !.op = "mutate_atoms", !.arg = atoms]

\* check_state on the structure object the caller holds.
CheckCaller ==
    /\ caller.atoms # NoAtoms
    /\ \E after \in {after_check_state(Call(Self), caller.atoms)} : Becomes(after)
    /\ ret' = [op |-> "check_state", arg |-> caller.atoms,
               changes |-> check_state(Self, caller.atoms), sites |-> <<>>]

PlaceKeys == {"label", "directory", "txt", "command"}

\* set, with the keywords of the call, the keys the results had before it
\* and the parameters it changed.
Set(kws) ==
    \E kw \in kws :
        /\ \E after \in {set(Call(Self), kw)} : Becomes(after)
        /\ ret' = [op |-> "set", keys |-> DOMAIN kw, had |-> DOMAIN results,
                   changed |-> changed_parameters(Self, Without(kw, PlaceKeys))]

SetParams(kws) ==
    \E kw \in kws :
        /\ \E after \in {set(Call(Self), kw)} : Becomes(after)
        /\ ret' = NoRet

SetTxt ==
    \E v \in TxtValues :
        /\ \E after \in {set(Call(Self), [txt |-> v])} : Becomes(after)
        /\ ret' = NoRet

SetKpts(values) ==
    \E k \in values :
        /\ \E after \in {kpts_setter(Call(Self), k)} : Becomes(after)
        /\ ret' = NoRet

MutateKpts ==
    \E k \in ListValues :
        /\ IsList(input_params.kpts)
        /\ k # input_params.kpts
        /\ \E after \in {mutate_kpts(Call(Self), k)} : Becomes(after)
        /\ ret' = NoRet

\* set(command=...).
SetCommand(cmds) ==
    \E cmd \in cmds :
        /\ \E after \in {set(Call(Self), [command |-> cmd])} : Becomes(after)
        /\ ret' = NoRet

\* make_command(self.command) in an environment.
MakeCommand ==
    \E environ \in CommandEnvirons :
        /\ \E after \in {IF command_found(command, environ) THEN Call(Self)
                          ELSE Raise(Call(Self), "CalculatorSetupError", <<>>)} :
               Becomes(after)
        /\ ret' = [op |-> "make_command", environ |-> environ,
                   value |-> IF command_found(command, environ)
                             THEN make_command(command, environ) ELSE <<>>]

AsDict ==
    \E d \in {asdict(Call(Self))} :
        /\ Becomes(d.after)
        /\ ret' = [op |-> "asdict", dct |-> d.dct,
                   imported |-> blank(command, files)]

\* fromdict on a new adapter, with the dictionary asdict returned.
FromDict ==
    /\ ret.op = "asdict"
    /\ \E after \in {Call(Self)} : Becomes(after)
    /\ ret' = [op |-> "fromdict", dct |-> ret.dct,
               imported |-> fromdict(construct(command, files, EmptyDict),
                                     ret.dct)]

\* The readers of the log, called on the OUTCAR of the directory: what each
\* raises and returns.
Returned(op, r) == [op |-> op, raises |-> r.raises, value |-> r.value]

Raised(r) ==
    IF r.raises = "none" THEN Call(Self) ELSE Raise(Call(Self), r.raises, <<>>)

ReadConvergence ==
    /\ files.outcar # <<>>
    /\ \E r \in {convergence(files.outcar[1].lines, int_params.ibrion,
                              int_params.nsw)} :
           /\ \E after \in {Raised(r)} : Becomes(after)
           /\ ret' = Returned("read_convergence", r)

ReadNbands ==
    /\ files.outcar # <<>>
    /\ \E r \in {read_nbands(files.outcar[1].lines)} :
           /\ \E after \in {Raised(r)} : Becomes(after)
           /\ ret' = Returned("read_nbands", r)

ReadMagneticMoment ==
    /\ files.outcar # <<>>
    /\ \E r \in {read_magnetic_moment(files.outcar[1].lines)} :
           /\ \E after \in {Raised(r)} : Becomes(after)
           /\ ret' = Returned("_read_magnetic_moment", r)

Reset ==
    /\ \E after \in {reset(Call(Self))} : Becomes(after)
    /\ ret' = NoRet

\* The structures check_state is asked about: the stored one with any
\* coordinate, and one of other species.
CheckArgs ==
    {Atoms(<<"A", "A">>, 0)}
    \cup (IF atoms = NoAtoms THEN {} ELSE {[atoms EXCEPT !.x = c] : c \in Coords})

CheckState ==
    \E a \in CheckArgs :
        /\ \E after \in {after_check_state(Call(Self), a)} : Becomes(after)
        /\ ret' = [op |-> "check_state", arg |-> a,
                   changes |-> check_state(Self, a), sites |-> <<>>]

ReadSort ==
    \E after \in {read_sort(Call(Self))} :
        /\ Becomes(after)
        /\ ret' = IF Ok(after) THEN [NoRet EXCEPT !.op = "read_sort"] ELSE NoRet

Read ==
    /\ \E after \in {read(Call(Self))} : Becomes(after)
    /\ ret' = [NoRet EXCEPT !.op = "read"]

ReadAtoms ==
    /\ \E after \in {IF read_atoms_raises(Self) = "none" THEN Call(Self)
                      ELSE Raise(Call(Self), read_atoms_raises(Self), <<"read_atoms">>)} :
           Becomes(after)
    /\ ret' = IF read_atoms_raises(Self) = "none"
              THEN [op |-> "read_atoms", arg |-> NoAtoms, changes |-> {},
                    sites |-> read_atoms(Self)]
              ELSE NoRet

\* The life cycle of the adapter.
Next ==
    \/ Calculate(LifeStructures \cup BadAtoms, Environs, Runs)
    \/ SetAtoms(LifeStructures \cup {NoAtoms})
    \/ SetParams(ParamKwargs)
    \/ SetTxt
    \/ SetKpts(KptsValues)
    \/ Reset
    \/ CheckState

Spec == Init /\ [][Next]_vars

\* The permutation: every list of species, a spin-polarised run with
\* LORBIT = 11 that succeeds or crashes, in a directory that may hold the
\* output of an earlier run.
SortRuns == {[code |-> 0, out |-> "complete"], [code |-> 137, out |-> "brokenxml"]}

NextSort ==
    \/ Calculate(SortStructures, {EmptyDict}, SortRuns)
    \/ SetAtoms(SortStructures)
    \/ ReadSort
    \/ ReadAtoms

SpecSort == InitSort /\ [][NextSort]_vars

\* The parameters: kpts is None or a list, which is passed to set, assigned
\* through the kpts setter or changed in place, around runs of one structure.
InitParams ==
    IsConstructed({<<"vasp_std">>}, {EmptyDir}, {EmptyDict, [kpts |-> "L1"]})

NextParams ==
    \/ Calculate({Atoms(<<"A">>, 0)}, {EmptyDict}, SortRuns)
    \/ SetParams(ListKwargs)
    \/ SetKpts(ListValues \cup {None})
    \/ MutateKpts
    \/ CheckState

SpecParams == InitParams /\ [][NextParams]_vars

\* Reading a directory the adapter did not write: any of the output files
\* may be there, vasprun.xml whole or cut short, and a permutation file of
\* up to MaxLines lines that need not fit the structure of CONTCAR.
MaxLines == 2

FileIndices == {1, 2}

SortFiles == UNION {[1..n -> FileIndices \X FileIndices] : n \in 1..MaxLines}

FileSymbols == {<<"A">>, <<"A", "B">>}

ReadDirs ==
    {[sortfile |-> sf, poscar |-> <<>>,
      incar |-> <<[ispin |-> None, lorbit |-> None]>>,
      xml |-> x, outcar |-> o, contcar |-> c] :
        sf \in {<<>>} \cup {<<lines>> : lines \in SortFiles},
        x \in {<<>>, <<[ok |-> TRUE, forces |-> Identity(2), spin |-> FALSE]>>,
                <<[ok |-> FALSE, forces |-> <<>>, spin |-> FALSE]>>},
        o \in {<<>>, <<[lines |-> CompleteLog, mag |-> <<>>]>>},
        c \in {<<>>} \cup {<<[sym |-> sym, ids |-> Identity(Len(sym))]>> :
                              sym \in FileSymbols}}

ReadRuns == {[code |-> 0, out |-> o] : o \in {"complete", "brokenxml", "noxml"}}

InitRead == IsConstructed({<<"vasp_std">>}, ReadDirs, {EmptyDict})

NextRead ==
    \/ Read
    \/ ReadSort
    \/ Calculate({Atoms(<<"A", "B">>, 0)}, {EmptyDict}, ReadRuns)

SpecRead == InitRead /\ [][NextRead]_vars

\* The log: every OUTCAR of up to MaxLog of the lines the readers look for,
\* in any order, with and without a relaxation requested.
MaxLog == 3

LogLines ==
    {Line("EDIFF", 1, 0), Line("change", 0, 0), Line("change", 0, 2),
     Line("change", -2, 0), Line("accuracy", 0, 0), Line("electron", 0, 0),
     Line("NBANDS", 2, 0), Line("MIXING", 0, 0)}

Logs == UNION {[1..n -> LogLines] : n \in 0..MaxLog}

LogDirs == {[EmptyDir EXCEPT !.outcar = <<[lines |-> l, mag |-> <<>>]>>] : l \in Logs}

LogKwargs ==
    {EmptyDict, [ibrion |-> "2"], [ibrion |-> "2", nsw |-> "5"],
     [ibrion |-> "2", nsw |-> "0"], [ibrion |-> "-1", nsw |-> "5"]}

InitLog == IsConstructed({<<"vasp_std">>}, LogDirs, LogKwargs)

NextLog == ReadConvergence \/ ReadNbands \/ ReadMagneticMoment

SpecLog == InitLog /\ [][NextLog]_vars

\* The magnetic moments: runs with and without spin polarisation and
\* LORBIT = 11, whose log holds the magnetization block or lacks it.
MagKwargs == {EmptyDict, MagOn, [ispin |-> "2"], [lorbit |-> "11"]}

MagRuns == {[code |-> 0, out |-> o] : o \in {"complete", "nomag"}}

InitMag == IsConstructed({<<"vasp_std">>}, {EmptyDir}, MagKwargs)

NextMag ==
    \/ Calculate(SortStructures, {EmptyDict}, MagRuns)
    \/ SetParams(MagKwargs \ {EmptyDict})

SpecMag == InitMag /\ [][NextMag]_vars

\* The snapshot: the adapter is exported in every state of a life of runs
\* and changes, and the dictionary is imported by a new adapter.
DictKwargs == {EmptyDict, MagOn, [kpts |-> "L1"], [kpts |-> None]}

InitDict == IsConstructed({<<"vasp_std">>}, {EmptyDir}, DictKwargs)

NextDict ==
    \/ Calculate({Atoms(<<"A", "B">>, 0)}, {EmptyDict}, SortRuns)
    \/ SetAtoms({Atoms(<<"A">>, 0), NoAtoms})
    \/ SetParams(DictKwargs \ {EmptyDict})
    \/ AsDict
    \/ FromDict

SpecDict == InitDict /\ [][NextDict]_vars

\* The structure: it is assigned through the setter, set and calculate,
\* and the caller then moves the sites of its object and asks for changes.
AtomsKwargs == {[atoms |-> a] : a \in LifeStructures}

NextAtoms ==
    \/ SetAtoms(LifeStructures \cup {NoAtoms})
    \/ SetParams(AtomsKwargs)
    \/ Calculate(LifeStructures, {EmptyDict}, SortRuns)
    \/ MutateAtoms
    \/ CheckCaller

InitAtoms == IsConstructed({<<"vasp_std">>}, {EmptyDir}, {EmptyDict})

SpecAtoms == InitAtoms /\ [][NextAtoms]_vars

\* The keywords of set: any of label, directory, txt and command, or input
\* parameters with or without them, given to an adapter with and without
\* results; the other directory holds the output of an earlier run.
PlaceValues(k) ==
    CASE k = "label" -> {"run"}
      [] k = "directory" -> {".", "elsewhere"}
      [] k = "txt" -> {"-"}
      [] k = "command" -> {<<"mpirun", "vasp_std">>}

\* A keyword is left out (<<>>) or passed with a value (<<value>>).
Optional(k) == {<<>>} \cup {<<v>> : v \in PlaceValues(k)}

PlaceKwargs ==
    {[k \in {"label" : i \in 1..Len(l)} \cup {"directory" : i \in 1..Len(d)}
             \cup {"txt" : i \in 1..Len(x)} \cup {"command" : i \in 1..Len(c)} |->
          CASE k = "label" -> l[1]
            [] k = "directory" -> d[1]
            [] k = "txt" -> x[1]
            [] k = "command" -> c[1]] :
        l \in Optional("label"), d \in Optional("directory"),
        x \in Optional("txt"), c \in Optional("command")} \ {EmptyDict}

InputKwargs ==
    {[kpts |-> "k1"], [ispin |-> "2"], [kpts |-> "k1", txt |-> "-"],
     [ispin |-> "2", label |-> "run"]}

InitSet ==
    /\ Is([construct(<<"vasp_std">>, EmptyDir, EmptyDict)
               EXCEPT !.place.elsewhere = ForeignDir(<<"A">>)])
    /\ ret = NoRet

NextSet ==
    \/ Calculate({Atoms(<<"A">>, 0)}, {EmptyDict}, SortRuns)
    \/ Set(PlaceKwargs)
    \/ Set(InputKwargs)

SpecSet == InitSet /\ [][NextSet]_vars

\* The output destination: every kind of txt, and runs that end, fail, or
\* whose start raises.
AllTxt == {None, "-", "vasp.out", "<stream>", "<int>"}

TxtRuns == SortRuns \cup {[code |-> 0, out |-> "oserror"]}

NextTxt ==
    \/ Set({[txt |-> v] : v \in AllTxt})
    \/ Calculate(LifeStructures, {EmptyDict}, TxtRuns)

SpecTxt == InitAtoms /\ [][NextTxt]_vars

\* The set-up: structures calculate accepts and refuses, with and without a
\* command and an environment that gives one.
NextSetup ==
    \/ Calculate(LifeStructures \cup BadAtoms, Environs, SortRuns)
    \/ SetCommand(Commands)

SpecSetup == Init /\ [][NextSetup]_vars

\* The command: make_command in every environment, for every command the
\* adapter is given.
GivenCommands == Commands \cup {<<"mpirun", "vasp_std">>, <<"PREFIX">>}

NextCommand == SetCommand(GivenCommands) \/ MakeCommand

SpecCommand == Init /\ [][NextCommand]_vars

----------------------------------------------------------------------------
\* Properties of calculate and of the result mapping (under Spec)

Events(e) == {i \in 1..Len(trace) : trace[i].ev = e}

Failed == {i \in Events("exit") : trace[i].code # 0}

\* C1: a calculate call that ends by raising an error leaves in the result
\* mapping no entry that was there before the call.
C1_StaleResultsCleared == exc # NoExc => old \cap DOMAIN results = {}

\* C2: when the program exits with a non-zero status, calculate raises
\* CalculationFailed carrying the program name, the directory and the exit
\* status, read_results does not run and the result mapping is empty.
C2_FailureIsRaised ==
    \A i \in Failed :
        /\ exc = [type |-> "CalculationFailed",
                  info |-> <<name, directory, trace[i].code>>]
        /\ Events("read") = {}
        /\ results = EmptyDict

\* A crash (status 137) that left every output file behind, readable.
C2_Witness ==
    /\ \E i \in Failed : trace[i].code = 137
    /\ files.xml # <<>>
    /\ files.xml[1].ok

\* C3: whenever the change detector reports a change for the stored
\* structure, the result mapping is empty.
C3_ChangeClearsResults ==
    check_state(Self, atoms) # {} => results = EmptyDict

\* C4: the result mapping is empty or holds the full set of results of an
\* attempt; it never holds a part of them.
C4_NoPartialResults == DOMAIN results \in {{}, AllKeys}

\* C5: in every calculate the input files are written before the program is
\* launched, the program is launched at most once, and exactly once in a
\* call that reaches its exit status; it has exited before the output is
\* read, and the output is read only after exit status 0.
C5_CalculateOrder ==
    /\ \A i \in Events("launch") : \E j \in Events("write_input") : j < i
    /\ Cardinality(Events("launch")) <= 1
    /\ \A i \in Events("exit") :
           /\ Cardinality(Events("launch")) = 1
           /\ \E j \in Events("launch") : j < i
    /\ \A i \in Events("read") :
           /\ \E j \in Events("exit") : j < i /\ trace[j].code = 0
           /\ Failed = {}
    /\ (exc.type = "CalculationFailed" \/ Events("read") # {})
           => Cardinality(Events("launch")) = 1

\* A calculate that went through every step and returned.
C5_Witness ==
    /\ exc = NoExc
    /\ Len(trace) = 4
    /\ trace[4].ev = "read"
    /\ DOMAIN results = AllKeys

----------------------------------------------------------------------------
\* Properties of the permutation (under SpecSort)

IsInverse(srt, rst) ==
    /\ Len(srt) = Len(rst)
    /\ \A i \in 1..Len(srt) : srt[i] \in 1..Len(rst) /\ rst[srt[i]] = i

\* The index of the first site of sym that holds the species.
FirstSite(sym, symbol) ==
    CHOOSE i \in 1..Len(sym) : sym[i] = symbol /\ \A j \in 1..(i - 1) : sym[j] # symbol

\* The structure the files read_sort loads the pair from describe.
SortSource == IF files.sortfile # <<>> THEN files.poscar[1].sym ELSE files.contcar[1].sym

\* C6 as stated: a held pair has the length of the stored site list and
\* resort[sort[i]] = i for every i.
C6_PairFitsSiteList ==
    (sort # <<>> /\ atoms # NoAtoms) =>
        /\ Len(sort) = Len(atoms.sym)
        /\ Len(resort) = Len(atoms.sym)
        /\ IsInverse(sort, resort)

\* C6, amended: a held pair satisfies resort[sort[i]] = i for every i and
\* has the length of the structure it was built from: the structure
\* write_input wrote, or the one the files read_sort loaded it from describe.
C6_PairFitsItsSource ==
    sort # <<>> =>
        /\ IsInverse(sort, resort)
        /\ Events("write_input") # {} => Len(sort) = Len(atoms.sym)
        /\ ret.op = "read_sort" => Len(sort) = Len(SortSource)

\* A pair that is not the identity, loaded from the permutation file while
\* a structure with fewer sites is stored.
C6_Witness ==
    /\ ret.op = "read_sort"
    /\ files.sortfile # <<>>
    /\ sort # resort
    /\ atoms # NoAtoms
    /\ Len(atoms.sym) < Len(sort)

\* Sites of one species are contiguous and in caller order, and the species
\* are in order of first appearance.
Grouped(sym, srt) ==
    LET sorted == Permute(sym, srt)
    IN  /\ Len(srt) = Len(sym)
        /\ \A i, k \in 1..Len(srt) :
               (i < k /\ sorted[i] = sorted[k]) =>
                   /\ \A j \in i..k : sorted[j] = sorted[i]
                   /\ srt[i] < srt[k]
        /\ \A i, k \in 1..Len(srt) :
               (i < k /\ sorted[i] # sorted[k]) =>
                   FirstSite(sym, sorted[i]) < FirstSite(sym, sorted[k])

\* C7: sort applied to the caller's site list groups the sites by species,
\* the groups in order of first appearance and each group in caller order;
\* this is the list write_input writes.
C7_SortGroupsSpecies ==
    /\ Events("write_input") # {} =>
           /\ Grouped(atoms.sym, sort)
           /\ files.poscar[1].sym = Permute(atoms.sym, sort)
    /\ (ret.op = "read_sort" /\ files.sortfile = <<>>) =>
           Grouped(files.contcar[1].sym, sort)

\* Two species interleaved: the sort moves sites.
C7_Witness ==
    /\ Events("write_input") # {}
    /\ atoms.sym = <<"A", "B", "A", "B">>
    /\ sort = <<1, 3, 2, 4>>

LastRunWasRead == Events("read") # {} /\ exc = NoExc

\* C8 as stated: entry i of a per-atom result is the value the program
\* reported at external position sort[i].
C8_EntryIsAtSort ==
    /\ LastRunWasRead =>
           \A i \in 1..Len(atoms.sym) :
               /\ results.forces[i] = files.xml[1].forces[sort[i]]
               /\ results.magmoms[i] = files.outcar[1].mag[sort[i]]
    /\ ret.op = "read_atoms" =>
           \A i \in 1..Len(ret.sites) : ret.sites[i] = files.contcar[1].ids[sort[i]]

\* C8, amended: entry i of a per-atom result, and site i of the structure
\* read_atoms returns, is what the program reported at external position
\* resort[i]; the value at external position n is entry sort[n].
C8_EntryIsAtResort ==
    /\ LastRunWasRead =>
           /\ Len(results.forces) = Len(atoms.sym)
           /\ Len(results.magmoms) = Len(atoms.sym)
           /\ \A i \in 1..Len(atoms.sym) :
                  /\ results.forces[i] = files.xml[1].forces[resort[i]]
                  /\ results.magmoms[i] = files.outcar[1].mag[resort[i]]
           /\ \A n \in 1..Len(atoms.sym) :
                  /\ results.forces[sort[n]] = files.xml[1].forces[n]
                  /\ results.magmoms[sort[n]] = files.outcar[1].mag[n]
    /\ ret.op = "read_atoms" =>
           \A i \in 1..Len(ret.sites) : ret.sites[i] = files.contcar[1].ids[resort[i]]

\* Results read through a permutation that is not its own inverse.
C8_Witness ==
    /\ LastRunWasRead
    /\ sort # resort
    /\ results.forces # files.xml[1].forces

----------------------------------------------------------------------------
\* Properties of check_state (under Spec)

\* C9: a check_state call changes neither the result mapping, the stored
\* structure, the parameter dictionaries nor their snapshot, and a second
\* call with the same argument returns what the first returned.
C9_CheckStateIsPure ==
    [][ret'.op = "check_state" =>
           /\ results' = results
           /\ atoms' = atoms
           /\ input_params' = input_params
           /\ int_params' = int_params
           /\ param_state' = param_state
           /\ check_state(Self', ret'.arg) = ret'.changes]_vars

\* check_state reported a change while results are held.
C9_Witness ==
    /\ ret.op = "check_state"
    /\ ret.changes # {}
    /\ results # EmptyDict

----------------------------------------------------------------------------
\* Properties of the parameters (under SpecParams)

\* C11: check_state lists a parameter category exactly when the current
\* mapping of that category differs from the values recorded when the
\* parameter state was last stored, however the mapping was changed.
C11_ListsChangedCategories ==
    \A p \in DOMAIN param_state :
        p \in check_state(Self, atoms) <=> Self[p] # taken[p]

----------------------------------------------------------------------------
\* Properties of make_command (under SpecCommand)

IsSet(v) == v \in DOMAIN ret.environ

\* C12: make_command returns the command the adapter was given; without
\* one, what the first of ASE_VASP_COMMAND, VASP_COMMAND, VASP_SCRIPT that is
\* set holds (PREFIX replaced by the prefix), VASP_SCRIPT behind the Python
\* executable; with no command and none of the three set it raises
\* CalculatorSetupError.
C12_CommandPriority ==
    ret.op = "make_command" =>
        /\ command # <<>> => exc = NoExc /\ ret.value = command
        /\ (command = <<>> /\ IsSet("ASE_VASP_COMMAND")) =>
               /\ exc = NoExc
               /\ ret.value = replace_prefix(ret.environ["ASE_VASP_COMMAND"])
        /\ (command = <<>> /\ ~IsSet("ASE_VASP_COMMAND") /\ IsSet("VASP_COMMAND")) =>
               /\ exc = NoExc
               /\ ret.value = replace_prefix(ret.environ["VASP_COMMAND"])
        /\ (/\ command = <<>>
            /\ ~IsSet("ASE_VASP_COMMAND")
            /\ ~IsSet("VASP_COMMAND")
            /\ IsSet("VASP_SCRIPT")) =>
               /\ exc = NoExc
               /\ ret.value =
                      <<sys_executable>> \o replace_prefix(ret.environ["VASP_SCRIPT"])
        /\ (command = <<>> /\ DOMAIN ret.environ = {}) =>
               exc = [type |-> "CalculatorSetupError", info |-> <<>>]

\* No command, and a later variable set beside an earlier one.
C12_Witness ==
    /\ ret.op = "make_command"
    /\ command = <<>>
    /\ DOMAIN ret.environ = {"VASP_COMMAND", "VASP_SCRIPT"}
    /\ ret.value = <<"mpirun", "vasp", "VASP_COMMAND">>

----------------------------------------------------------------------------
\* Properties of reading a directory (under SpecRead)

\* The last call read results, or set out to, in a directory that has the
\* two other output files.
ResultsWereRead ==
    /\ ret.op = "read" \/ Events("read") # {}
    /\ files.outcar # <<>>
    /\ files.contcar # <<>>

\* C13: when vasprun.xml is absent or cannot be parsed, read and the
\* read_results of calculate end with a ReadError that names the file.
C13_XmlFailureIsReadError ==
    (ResultsWereRead /\ (files.xml = <<>> \/ ~files.xml[1].ok)) =>
        exc = [type |-> "ReadError", info |-> <<"vasprun.xml">>]

\* C17: the adapter that imported the dictionary asdict returned holds the
\* parameter snapshot of the exporting adapter, entries of value None left
\* aside, and the results the dictionary holds.
C17_RoundTrip ==
    ret.op = "fromdict"
        => /\ inputs(ret.imported.param_state) = inputs(param_state)
           /\ ret.imported.results = ret.dct.results
           /\ ret.dct.results = results

C17_Witness ==
    /\ ret.op = "fromdict"
    /\ DOMAIN ret.dct.results # {}
    /\ DOMAIN ret.dct.inputs # {}
    /\ ret.dct.atoms # <<>>
    /\ int_params.nsw = None

\* C18: when the caller moves the sites of the structure object it assigned,
\* the stored structure stays as it was, and check_state on the caller's
\* object reports what the caller changed against the stored structure.
C18_StoredStructureIsPrivate ==
    /\ ret.op = "mutate_atoms" => atoms = ret.arg
    /\ (ret.op = "check_state" /\ ret.arg = caller.atoms /\ atoms # NoAtoms)
           => ("positions" \in ret.changes <=> Abs(atoms.x - caller.atoms.x) > Tol)

C18_Witness ==
    /\ ret.op = "check_state"
    /\ ret.arg = caller.atoms
    /\ atoms # NoAtoms
    /\ atoms.x # caller.atoms.x
    /\ "positions" \in ret.changes
    /\ DOMAIN results # {}

\* C19: a call of set with only label, directory, txt or command leaves the
\* results and the loaded vasprun.xml data as they are; a call of set with
\* an input parameter leaves the results empty, whatever the value passed.
C19_SetFrame ==
    [][ret'.op = "set"
           => IF ret'.keys \subseteq PlaceKeys
              THEN results' = results /\ xml_calc' = xml_calc
              ELSE results' = EmptyDict]_vars

C19_Witness ==
    /\ ret.op = "set"
    /\ ret.keys = {"kpts"}
    /\ ret.changed = {}
    /\ ret.had # {}
    /\ results = EmptyDict
    /\ place.prefix = "run"
    /\ place.directory = "elsewhere"

\* C20: when the permutation file exists read_sort sets sort to its first
\* column and resort to its second, line by line, whatever the structure of
\* the directory; only without the file is the pair rebuilt from CONTCAR.
C20_SortFileIsTrusted ==
    ret.op = "read_sort" =>
        IF files.sortfile # <<>>
        THEN /\ Len(sort) = Len(files.sortfile[1])
             /\ Len(resort) = Len(files.sortfile[1])
             /\ \A n \in 1..Len(files.sortfile[1]) :
                    /\ sort[n] = files.sortfile[1][n][1]
                    /\ resort[n] = files.sortfile[1][n][2]
        ELSE /\ sort = build_sort(files.contcar[1].sym)
             /\ IsInverse(sort, resort)

\* A file that is no permutation of the sites of CONTCAR was loaded as it is.
C20_Witness ==
    /\ ret.op = "read_sort"
    /\ files.sortfile # <<>>
    /\ files.contcar # <<>>
    /\ Len(sort) # Len(files.contcar[1].sym)
    /\ ~IsInverse(sort, resort)

\* C14: a reader of a scalar of the log returns a value or a default and
\* never raises, whichever of its lines the log holds and in whichever order.
C14_LogReadersNeverRaise ==
    ret.op \in {"read_convergence", "read_nbands", "_read_magnetic_moment"}
        => ret.raises = "none"

\* C15: after reading a spin-polarised run whose log holds no magnetization
\* block, whether LORBIT >= 10 was requested or not, the moments of the sites
\* are zeros, one per site, and a warning was emitted.
C15_MissingBlockWarns ==
    (LastRunWasRead /\ int_params.ispin = "2" /\ files.outcar[1].mag = <<>>)
        => /\ results.magmoms = Zeros(Len(atoms.sym))
           /\ Events("warn") # {}

\* C16: when a relaxation was requested read_convergence returns True only
\* if the electronic check passed and the log holds the marker line, and it
\* returns the outcome of the electronic check when none was requested.
C16_ConvergenceCombinesChecks ==
    (ret.op = "read_convergence" /\ ret.raises = "none")
        => LET lines == files.outcar[1].lines
               passed == electronic(lines, Len(lines)).converged
           IN  IF relaxation_requested(int_params.ibrion, int_params.nsw)
               THEN ret.value = "True"
                        => (passed = "True" /\ read_relaxed(lines))
               ELSE ret.value = passed

\* C21: exporting the state with asdict leaves the parameter snapshot as it
\* was, so check_state returns the same list right before and right after
\* the export.
C21_ExportKeepsSnapshot ==
    [][ret'.op = "asdict"
           => /\ param_state' = param_state
              /\ check_state(Self', atoms') = check_state(Self, atoms)]_vars

C23_EmptiedMeansUnloaded ==
    [][(results # EmptyDict /\ results' = EmptyDict)
           => xml_calc_getter(Self').raises = "RuntimeError"]_vars

\* C24: a calculate that raises CalculatorSetupError has written no input
\* file and launched no process: the files are those before the call.
C24_SetupErrorWritesNothing ==
    [][exc'.type = "CalculatorSetupError"
           => /\ files' = files
              /\ \A i \in 1..Len(trace') :
                     trace'[i].ev \notin {"write_input", "launch"}]_vars

C24_Witness ==
    /\ exc.type = "CalculatorSetupError"
    /\ command = <<>>
    /\ atoms \in LifeStructures
    /\ files.poscar # <<>>
    /\ files.poscar[1].sym # atoms.sym

\* The last line of a kind among the first n lines, 0 if none.
LastOf(lines, kind, n) ==
    IF \E k \in LinesOf(lines, kind) : k <= n
    THEN CHOOSE k \in LinesOf(lines, kind) :
             k <= n /\ \A j \in LinesOf(lines, kind) : j <= n => j <= k
    ELSE 0

\* C25: without a relaxation requested, read_convergence returns True if
\* and only if both energy changes of the last 'total energy-change' line
\* without 'MIXING' are below the EDIFF threshold logged before it.
C25_BothChangesBelowEdiff ==
    (/\ ret.op = "read_convergence"
     /\ ret.raises = "none"
     /\ ~relaxation_requested(int_params.ibrion, int_params.nsw)
     /\ LinesOf(files.outcar[1].lines, "change") # {})
        => LET lines == files.outcar[1].lines
               last == LastOf(lines, "change", Len(lines))
               ediff == lines[LastOf(lines, "EDIFF", last)].a
           IN  ret.value = "True"
                   <=> (Abs(lines[last].a) < ediff /\ Abs(lines[last].b) < ediff)

====
